---- MODULE Spec2Model ----
(***************************************************************************)
(* A model of the Microsoft 365 MCP server's authorization/session core:   *)
(*   - the Session Actor   (MicrosoftMCPAgent, src/src/microsoft-graph.ts) *)
(*   - the Protocol Router (worker entry point, src/unnamed/part_001)      *)
(*   - the Authorization Broker (src/src/microsoft-handler.ts) with the    *)
(*     approval cookie utility (src/src/workers-oauth-utils.ts)            *)
(*   - the Token Bridge (tokenExchangeCallback, exchangeMicrosoftTokens   *)
(*     and refreshMicrosoftTokens, src/unnamed/part_001)                   *)
(* Each component has its own specification (SpecActor, SpecRouter,        *)
(* SpecBroker, SpecBridge); SpecExchange runs the callback together with   *)
(* the code exchange, SpecTransport one request under every combination of *)
(* its transport headers, SpecFlow whole authorization flows from         *)
(* GET /authorize to the code exchange.  The variables of the components a *)
(* specification does not run stay at their initial values.                *)
(***************************************************************************)
EXTENDS Integers, Sequences, FiniteSets, TLC

VARIABLES
    \* ---- Session Actor (one Durable Object instance) ----
    attached,       \* the identity/token context attached to the actor at creation
    props,          \* this.props
    pc,             \* per message: position of its fetch() invocation
    req,            \* per message: the request being handled
    branch,         \* per message: the path fetch() took for it
    originalProps,  \* per message: the local const originalProps
    ctxBefore,      \* per message: this.props immediately before fetch() swapped it out
    resp,           \* per message: the response produced
    graphCalls      \* MicrosoftGraphClient calls made so far

actorVars == <<attached, props, pc, req, branch, originalProps, ctxBefore, resp, graphCalls>>

VARIABLES
    \* ---- Protocol Router (the worker's fetch entry point) ----
    rPc,            \* position of the entry point: "idle", "classified", "dispatched", "failed"
    rReq,           \* the inbound request: path and Authorization header
    rClass,         \* result of isApiTokenRequest: "discovery", "oauth" or "TypeError"
    rDispatch,      \* where the request went: target actor, context attached, OAuth validation
    actorCtx        \* per actor key: the identity/token context the actor holds

routerVars == <<rPc, rReq, rClass, rDispatch, actorCtx>>

VARIABLES
    \* ---- Authorization Broker (GET/POST /authorize, GET /callback) ----
    bReq,           \* the last request handled: handler, parsed OAuth request, cookie, state, code
    bResp,          \* the response to it
    signedPayloads, \* approval lists the service has signed into a Set-Cookie so far
    approved,       \* client ids for which consent was submitted by POST /authorize
    redirected,     \* OAuth requests for which an upstream redirect was issued
    completed,      \* OAuth requests for which completeAuthorization was called
    kvStaticClient, \* OAUTH_KV holds the record of the static client
    pendingProps    \* grants made by completeAuthorization: the request and the props stored with it

brokerVars == <<bReq, bResp, signedPayloads, approved, redirected, completed, kvStaticClient,
                pendingProps>>

VARIABLES
    \* ---- Token Bridge (tokenExchangeCallback and the upstream token endpoint) ----
    ops,            \* per invocation of tokenExchangeCallback: position, grant, options.props, response
    sessionProps,   \* per grant: the props stored after the last successful token exchange
    credential,     \* per grant: TTL and expiry of the session credential last issued
    upstreamCalls,  \* per invocation in progress: the calls it made to the upstream token endpoint
    outcome         \* the invocation that finished last: what it returned or threw

bridgeVars == <<ops, sessionProps, credential, upstreamCalls, outcome>>

vars == <<actorVars, routerVars, brokerVars, bridgeVars>>

\* Everything that is not the actor's.
otherThanActor == <<routerVars, brokerVars, bridgeVars>>

\* Everything that is not the router's.
otherThanRouter == <<actorVars, brokerVars, bridgeVars>>

\* Everything that is not the broker's.
otherThanBroker == <<actorVars, routerVars, bridgeVars>>

\* Everything that is not the bridge's.
otherThanBridge == <<actorVars, routerVars, brokerVars>>

(***************************************************************************)
(* Bounds                                                                  *)
(***************************************************************************)
\* Number of messages that may be in flight on one actor.
NumMsgs == 2

Msgs == 1..NumMsgs

\* Longest bearer credential, in characters.
MaxCredLen == 5

\* invocations of tokenExchangeCallback that can be in progress together
NumOps == 2

\* requests a client takes as far as the upstream redirect in the flow specification
MaxFlows == 1

(***************************************************************************)
(* Session Actor: data                                                     *)
(***************************************************************************)
Undefined == "undefined"

\* this.props === null
NullProps == [tag |-> "null"]

\* A Props object; microsoftAccessToken is optional (Undefined when missing).
MkProps(id, tok) == [tag |-> "props", id |-> id, microsoftAccessToken |-> tok]

AccessTokens == {Undefined, "", "ms-token-1"}

PropsValues == {NullProps} \cup {MkProps("user-1", t) : t \in AccessTokens}

\* this.props?.microsoftAccessToken
AccessTokenOf(p) == IF p.tag = "null" THEN Undefined ELSE p.microsoftAccessToken

\* JavaScript truthiness of an optional string: !accessToken is false
Truthy(tok) == tok /= Undefined /\ tok /= ""

\* const discoveryMethods = [...]
discoveryMethods == {"initialize", "tools/list", "resources/list", "prompts/list"}

\* Tools registered in init() that call the Graph client
GraphTools == {"sendEmail", "getEmails", "searchEmails", "getCalendarEvents",
               "createCalendarEvent", "sendTeamsMessage", "createTeamsMeeting",
               "getContacts"}

\* Resources registered in init()
GraphResources == {"microsoft://profile", "microsoft://calendars", "microsoft://teams"}

NoMethod == "NOJSON"

\* A request: the JSON-RPC method and name of its body, and its headers
\* X-MCP-Mode, X-WebSocket-Session, Upgrade, Sec-WebSocket-Key,
\* Sec-WebSocket-Version and Connection (a list of tokens).
MkRequest(method, name, mode, session, upgrade, key, version, connection) ==
    [method |-> method, name |-> name, mcpMode |-> mode, wsSession |-> session,
     upgrade |-> upgrade, wsKey |-> key, wsVersion |-> version, connection |-> connection]

NoRequest == MkRequest(NoMethod, "", "absent", FALSE, "absent", FALSE, FALSE, <<>>)

MkReq(method, name, mode) ==
    MkRequest(method, name, mode, FALSE, "absent", FALSE, FALSE, <<>>)

\* The requests the model sends to an actor: every discovery method, Graph
\* tools and a Graph resource, the authenticate tool, and the transport modes.
ActorRequests ==
    {MkReq(m, "", "absent") : m \in discoveryMethods}
    \cup {MkReq("tools/call", t, "absent") : t \in {"sendEmail", "authenticate"}}
    \cup {MkReq("resources/read", "microsoft://profile", "absent")}
    \cup {MkReq("tools/call", "getContacts", "handshake"), MkReq(NoMethod, "", "other")}
    \cup {MkRequest(NoMethod, "", "websocket", TRUE, "websocket", TRUE, TRUE, <<"Upgrade">>)}

\* The header combinations of a request without a JSON body: each upgrade
\* signal present or dropped, with and without the X-MCP-Mode marking.
TransportRequests ==
    {MkRequest(NoMethod, "", mode, session, upgrade, key, version, connection) :
        mode \in {"absent", "websocket"}, session \in BOOLEAN,
        upgrade \in {"absent", "websocket", "WebSocket"},
        key \in BOOLEAN, version \in BOOLEAN,
        connection \in {<<>>, <<"keep-alive">>, <<"Upgrade">>, <<"keep-alive", "Upgrade">>}}

(***************************************************************************)
(* Session Actor: responses                                                *)
(***************************************************************************)
NoResp == "none"

\* Faulty variant of getAuthErrorResponse: the result is not marked as an error.
getAuthErrorResponse_NotError == "text:authentication-hint"

\* getAuthErrorResponse(): CallToolResult with isError: true
getAuthErrorResponse == "AuthenticationRequired:tool"

\* resource handlers: { error: "Authentication required", authenticated: false }
ResourceAuthRequired == "AuthenticationRequired:resource"

\* the 'authenticate' tool's guidance text; no isError
AuthenticateGuidance == "text:authentication-guidance"

\* The responses that tell the caller to authenticate.
IsAuthenticationRequired(r) ==
    r \in {"AuthenticationRequired:tool", "AuthenticationRequired:resource"}

\* const isDiscoveryMethod = jsonRpcRequest && discoveryMethods.includes(jsonRpcRequest.method)
isDiscoveryMethod(r) == r.method /= NoMethod /\ r.method \in discoveryMethods

\* String.prototype.toLowerCase on the header values the model uses
toLowerCase(h) ==
    IF h = "WebSocket" THEN "websocket"
    ELSE IF h = "Upgrade" THEN "upgrade"
    ELSE h

\* if (mcpMode === "websocket" && webSocketSession) {
\*   if (upgradeHeader?.toLowerCase() === "websocket" && webSocketKey) ... }
IsWebSocketDelegation(r) ==
    /\ r.mcpMode = "websocket" /\ r.wsSession
    /\ toLowerCase(r.upgrade) = "websocket" /\ r.wsKey

\* if (mcpMode === "handshake" || mcpMode === "other")
IsHandshakeMode(r) == r.mcpMode \in {"handshake", "other"}

\* The path fetch() takes for a request, in the order of its tests.
BranchOf(r) ==
    IF isDiscoveryMethod(r) THEN "discovery"
    ELSE IF IsWebSocketDelegation(r) THEN "websocket"
    ELSE IF IsHandshakeMode(r) THEN "handshake"
    ELSE "standard"

\* Faulty variant of ClearedProps: the context is left in place.
ClearedProps_Kept(p) == p

\* (this as any).props = null
ClearedProps(p) == NullProps

\* Faulty variant of HandlerMayCallGraph: only a missing token is refused, an empty one passes.
HandlerMayCallGraph_UndefinedOnly(tok) == tok /= Undefined

\* if (!accessToken) return <auth error>; the guard in front of every Graph call
HandlerMayCallGraph(tok) == Truthy(tok)

\* Faulty variant of RestoredProps: the restore follows the await instead of sitting in
\* a finally block, so a rejected super.fetch skips it.
RestoredProps_NoFinally(saved, current, failed) == IF failed THEN current ELSE saved

\* finally { (this as any).props = originalProps }: runs on return and on throw
RestoredProps(saved, current, failed) == saved


\* What the registered handler of a non-discovery request does with the context
\* it reads: [graph |-> whether it calls the Graph client, resp |-> its response
\* when it does not].
HandlerOutcome(r, p) ==
    LET accessToken == AccessTokenOf(p) IN
    IF r.method = "tools/call" /\ r.name \in GraphTools
    THEN [graph |-> HandlerMayCallGraph(accessToken), resp |-> getAuthErrorResponse]
    ELSE IF r.method = "tools/call" /\ r.name = "authenticate"
    THEN [graph |-> FALSE, resp |-> AuthenticateGuidance]
    ELSE IF r.method = "resources/read" /\ r.name \in GraphResources
    THEN [graph |-> HandlerMayCallGraph(accessToken), resp |-> ResourceAuthRequired]
    ELSE IF isDiscoveryMethod(r)
    THEN [graph |-> FALSE, resp |-> "result:discovery"]
    ELSE [graph |-> FALSE, resp |-> "transport:stream"]

(***************************************************************************)
(* Session Actor: actions.  fetch() is an async method: it suspends at     *)
(* each await, and other invocations on the same object may run in between.*)
(***************************************************************************)
ActorInit ==
    /\ attached \in PropsValues
    /\ props = attached
    /\ pc = [m \in Msgs |-> "idle"]
    /\ req = [m \in Msgs |-> NoRequest]
    /\ branch = [m \in Msgs |-> "none"]
    /\ originalProps = [m \in Msgs |-> NullProps]
    /\ ctxBefore = [m \in Msgs |-> NullProps]
    /\ resp = [m \in Msgs |-> NoResp]
    /\ graphCalls = {}

\* The actor before any message, as the other specifications hold it.
ActorIdle ==
    /\ attached = NullProps
    /\ props = NullProps
    /\ pc = [m \in Msgs |-> "idle"]
    /\ req = [m \in Msgs |-> NoRequest]
    /\ branch = [m \in Msgs |-> "none"]
    /\ originalProps = [m \in Msgs |-> NullProps]
    /\ ctxBefore = [m \in Msgs |-> NullProps]
    /\ resp = [m \in Msgs |-> NoResp]
    /\ graphCalls = {}

\* fetch(request) is invoked; it suspends at `await request.clone().text()`.
FetchRequest(m, r) ==
    /\ pc[m] = "idle"
    /\ IF m = 1 THEN TRUE ELSE pc[m - 1] /= "idle"
    /\ req' = [req EXCEPT ![m] = r]
    /\ pc' = [pc EXCEPT ![m] = "reading"]
    /\ UNCHANGED <<attached, props, branch, originalProps, ctxBefore, resp, graphCalls>>
    /\ UNCHANGED otherThanActor

Fetch(m) == \E r \in ActorRequests : FetchRequest(m, r)

\* The body is read: parse, classify, swap the context out on the discovery and
\* handshake paths, and call super.fetch(request), where fetch() suspends again.
Classify(m) ==
    /\ pc[m] = "reading"
    /\ branch' = [branch EXCEPT ![m] = BranchOf(req[m])]
    /\ IF BranchOf(req[m]) \in {"discovery", "handshake"}
       THEN /\ ctxBefore' = [ctxBefore EXCEPT ![m] = props]
            /\ originalProps' = [originalProps EXCEPT ![m] = props]
            /\ props' = ClearedProps(props)
       ELSE UNCHANGED <<ctxBefore, originalProps, props>>
    /\ pc' = [pc EXCEPT ![m] = "inSuper"]
    /\ UNCHANGED <<attached, req, resp, graphCalls>>
    /\ UNCHANGED otherThanActor

\* Inside super.fetch the message reaches its registered handler, which reads
\* this.props as it is at that moment.
HandlerRun(m) ==
    /\ pc[m] = "inSuper"
    /\ LET out == HandlerOutcome(req[m], props) IN
       IF out.graph
       THEN /\ graphCalls' = graphCalls \cup
                  {[msg |-> m, op |-> req[m].name, token |-> AccessTokenOf(props)]}
            /\ pc' = [pc EXCEPT ![m] = "inGraph"]
            /\ UNCHANGED resp
       ELSE /\ resp' = [resp EXCEPT ![m] = out.resp]
            /\ pc' = [pc EXCEPT ![m] = "handled"]
            /\ UNCHANGED graphCalls
    /\ UNCHANGED <<attached, props, req, branch, originalProps, ctxBefore>>
    /\ UNCHANGED otherThanActor

\* The Graph call settles; the handler's try/catch turns a failure into an
\* error result.
GraphReturn(m) ==
    /\ pc[m] = "inGraph"
    /\ \E r \in {"result:graph", "error:graph"} : resp' = [resp EXCEPT ![m] = r]
    /\ pc' = [pc EXCEPT ![m] = "handled"]
    /\ UNCHANGED <<attached, props, req, branch, originalProps, ctxBefore, graphCalls>>
    /\ UNCHANGED otherThanActor

\* super.fetch rejects instead of producing a response.
SuperFails(m) ==
    /\ pc[m] = "inSuper"
    /\ resp' = [resp EXCEPT ![m] = "throw"]
    /\ pc' = [pc EXCEPT ![m] = "failed"]
    /\ UNCHANGED <<attached, props, req, branch, originalProps, ctxBefore, graphCalls>>
    /\ UNCHANGED otherThanActor

\* super.fetch has settled: the finally block of the swapping paths restores
\* the context; the websocket path turns a rejection into a 500 response.
FetchReturn(m) ==
    /\ pc[m] \in {"handled", "failed"}
    /\ IF branch[m] \in {"discovery", "handshake"}
       THEN props' = RestoredProps(originalProps[m], props, pc[m] = "failed")
       ELSE UNCHANGED props
    /\ IF branch[m] = "websocket" /\ pc[m] = "failed"
       THEN resp' = [resp EXCEPT ![m] = "500:websocket-delegation-error"]
       ELSE UNCHANGED resp
    /\ pc' = [pc EXCEPT ![m] = "done"]
    /\ UNCHANGED <<attached, req, branch, originalProps, ctxBefore, graphCalls>>
    /\ UNCHANGED otherThanActor

ActorNext ==
    \/ \E m \in Msgs : Fetch(m)
    \/ \E m \in Msgs : Classify(m)
    \/ \E m \in Msgs : HandlerRun(m)
    \/ \E m \in Msgs : GraphReturn(m)
    \/ \E m \in Msgs : SuperFails(m)
    \/ \E m \in Msgs : FetchReturn(m)

(***************************************************************************)
(* Protocol Router: data.  A header value is a sequence of atoms: a scheme *)
(* word, spaces, and the characters of the credential.                     *)
(***************************************************************************)
CredAtoms == {"a", ":", "."}

RECURSIVE SeqsUpTo(_, _)
\* All sequences over S of length at most n.
SeqsUpTo(S, n) ==
    IF n = 0 THEN {<<>>}
    ELSE LET shorter == SeqsUpTo(S, n - 1) IN
         shorter \cup {Append(q, x) : q \in {t \in shorter : Len(t) = n - 1}, x \in S}

Credentials == SeqsUpTo(CredAtoms, MaxCredLen)

Schemes == {"Bearer", "bearer", "Basic"}

Spaces(n) == [i \in 1..n |-> " "]

Paths == {"/sse", "/mcp", "/authorize"}

\* Inbound requests: no Authorization header, an empty one, or a scheme
\* followed by zero to two spaces and a credential.
RouterRequests ==
    {[path |-> p, hasAuth |-> FALSE, scheme |-> "", sep |-> 0, cred |-> <<>>] : p \in Paths}
    \cup {[path |-> p, hasAuth |-> TRUE, scheme |-> "", sep |-> 0, cred |-> <<>>] : p \in Paths}
    \cup {[path |-> p, hasAuth |-> TRUE, scheme |-> sc, sep |-> n, cred |-> c] :
            p \in Paths, sc \in Schemes, n \in 0..2, c \in Credentials}

\* The header as the client wrote it.
RawAuthorization(r) ==
    IF r.scheme = "" THEN <<>> ELSE <<r.scheme>> \o Spaces(r.sep) \o r.cred

RECURSIVE TrimLeft(_)
TrimLeft(s) == IF s /= <<>> /\ Head(s) = " " THEN TrimLeft(Tail(s)) ELSE s

RECURSIVE TrimRight(_)
TrimRight(s) ==
    IF s /= <<>> /\ s[Len(s)] = " " THEN TrimRight(SubSeq(s, 1, Len(s) - 1)) ELSE s

\* req.headers.get("Authorization"): null when absent; header values carry no
\* leading or trailing whitespace.
HeadersGetAuthorization(r) ==
    IF r.hasAuth
    THEN [isNull |-> FALSE, value |-> TrimRight(TrimLeft(RawAuthorization(r)))]
    ELSE [isNull |-> TRUE, value |-> <<>>]

RECURSIVE Split(_, _)
\* String.prototype.split(separator) for a one-character separator.
Split(s, sep) ==
    IF s = <<>> THEN << <<>> >>
    ELSE IF Head(s) = sep THEN << <<>> >> \o Split(Tail(s), sep)
    ELSE LET rest == Split(Tail(s), sep) IN
         << <<Head(s)>> \o Head(rest) >> \o Tail(rest)

\* url.pathname.startsWith("/mcp") || url.pathname.startsWith("/sse")
IsMcpPath(path) == path \in {"/mcp", "/sse"}

\* The delimiter of the token's segments: token.split(":")
TokenDelimiter == ":"

\* isApiTokenRequest(req): "discovery" for true, "oauth" for false, "TypeError"
\* when token is undefined and token.split throws.
isApiTokenRequest(r) ==
    LET authHeader == HeadersGetAuthorization(r) IN
    IF ~IsMcpPath(r.path) THEN "oauth"
    ELSE IF authHeader.isNull \/ authHeader.value = <<>> THEN "discovery"
    ELSE LET parts == Split(authHeader.value, " ")
             type == parts[1]
         IN  IF type /= <<"Bearer">> THEN "oauth"
             ELSE IF Len(parts) < 2 THEN "TypeError"
             ELSE IF Len(Split(parts[2], TokenDelimiter)) /= 3 THEN "discovery"
             ELSE "oauth"

\* Faulty variant of DiscoveryActorName: one discovery actor per credential.
DiscoveryActorName_PerCaller(r) == IF r.cred = <<>> THEN "discovery-session" ELSE "session-1"

\* env.MCP_OBJECT.idFromName("discovery-session")
DiscoveryActorName(r) == "discovery-session"

ActorKeys == {"discovery-session", "session-1"}

\* The session credential the OAuth provider has issued, and the context stored
\* with its grant.
IssuedCredential == <<"a", ":", "a", ":", "a">>

IssuedProps == MkProps("user-1", "ms-token-1")

\* The OAuth provider's validation of the bearer credential: the context of
\* the grant, or none.
OAuthProps(r) ==
    IF r.hasAuth /\ r.scheme = "Bearer" /\ r.sep = 1 /\ r.cred = IssuedCredential
    THEN IssuedProps ELSE NullProps

NoDispatch == [kind |-> "none", target |-> "", ctx |-> NullProps, oauth |-> FALSE]

(***************************************************************************)
(* Protocol Router: actions                                                *)
(***************************************************************************)
RouterInit ==
    /\ rPc = "idle"
    /\ rReq \in RouterRequests
    /\ rClass = "none"
    /\ rDispatch = NoDispatch
    /\ actorCtx = [k \in ActorKeys |-> NullProps]

\* The router before any request, as the other specifications hold it.
RouterIdle ==
    /\ rPc = "idle"
    /\ rReq = [path |-> "/sse", hasAuth |-> FALSE, scheme |-> "", sep |-> 0, cred |-> <<>>]
    /\ rClass = "none"
    /\ rDispatch = NoDispatch
    /\ actorCtx = [k \in ActorKeys |-> NullProps]

\* if (await isApiTokenRequest(request)): an exception leaves the entry point.
RouterClassify ==
    /\ rPc = "idle"
    /\ rClass' = isApiTokenRequest(rReq)
    /\ rPc' = IF isApiTokenRequest(rReq) = "TypeError" THEN "failed" ELSE "classified"
    /\ UNCHANGED <<rReq, rDispatch, actorCtx>>
    /\ UNCHANGED otherThanRouter

\* handleApiTokenMode: the request goes straight to the discovery actor; no
\* props are passed and the OAuth provider is not consulted.
HandleApiTokenMode ==
    /\ rPc = "classified" /\ rClass = "discovery"
    /\ rDispatch' = [kind |-> "actor", target |-> DiscoveryActorName(rReq),
                     ctx |-> NullProps, oauth |-> FALSE]
    /\ rPc' = "dispatched"
    /\ UNCHANGED <<rReq, rClass, actorCtx>>
    /\ UNCHANGED otherThanRouter

\* new OAuthProvider({...}).fetch: /sse is the API route, served by the "/sse"
\* handler with the props of a valid credential (401 without one); every other
\* path goes to the default handler.
OAuthProviderFetch ==
    /\ rPc = "classified" /\ rClass = "oauth"
    /\ IF rReq.path = "/sse"
       THEN IF OAuthProps(rReq) /= NullProps
            THEN /\ rDispatch' = [kind |-> "actor", target |-> "session-1",
                                  ctx |-> OAuthProps(rReq), oauth |-> TRUE]
                 /\ actorCtx' = [actorCtx EXCEPT !["session-1"] = OAuthProps(rReq)]
            ELSE /\ rDispatch' = [kind |-> "401", target |-> "", ctx |-> NullProps, oauth |-> TRUE]
                 /\ UNCHANGED actorCtx
       ELSE /\ rDispatch' = [kind |-> "defaultHandler", target |-> "", ctx |-> NullProps,
                             oauth |-> FALSE]
            /\ UNCHANGED actorCtx
    /\ rPc' = "dispatched"
    /\ UNCHANGED <<rReq, rClass>>
    /\ UNCHANGED otherThanRouter

\* The requests that follow the first one: one of each kind the entry point
\* tells apart.
FollowUpRequests ==
    {r \in RouterRequests :
        /\ r.path \in {"/sse", "/authorize"}
        /\ \/ ~r.hasAuth
           \/ /\ r.scheme = "Bearer" /\ r.sep = 1
              /\ r.cred \in {<<>>, <<"a">>, IssuedCredential}}

\* The next request arrives.
RouterArrive ==
    /\ rPc \in {"dispatched", "failed"}
    /\ rReq' \in FollowUpRequests
    /\ rPc' = "idle"
    /\ rClass' = "none"
    /\ rDispatch' = NoDispatch
    /\ UNCHANGED actorCtx
    /\ UNCHANGED otherThanRouter

RouterNext ==
    \/ RouterClassify
    \/ HandleApiTokenMode
    \/ OAuthProviderFetch
    \/ RouterArrive

(***************************************************************************)
(* Authorization Broker: data                                              *)
(***************************************************************************)
ClientIds == {"c1", "c2"}

\* redirect URIs; the second is a local client's
RedirectUris == {"https://app.example/cb", "http://localhost:3334/cb"}

\* oauthReqInfo.redirectUri?.includes("localhost") || ...includes("127.0.0.1")
isLocalClient(uri) == uri \in {"http://localhost:3334/cb", "http://127.0.0.1:3334/cb"}

clientType(uri) == IF isLocalClient(uri) THEN "mcp-remote" ELSE "web-connector"

\* An AuthRequest as parseAuthRequest returns it: client id (may be empty),
\* redirect URI, scope and the client's own state value.
AuthRequest(c, u, sc, st) == [clientId |-> c, redirectUri |-> u, scope |-> sc, state |-> st]

MkAuthRequest(c, u) == AuthRequest(c, u, "S", "X1")

NoAuthRequest == AuthRequest("", "", "", "")

\* the origins under which the service is reached
ServiceOrigin == "https://service.example"

Origins == {ServiceOrigin, "https://alias.example"}

\* new URL(path, request.url).href
Url(origin, path) == [origin |-> origin, path |-> path]

NoUrl == Url(Undefined, Undefined)

\* a string with a character above U+00FF, which btoa rejects
WideState == "X-U+4E2D"

\* btoa(JSON.stringify(...)) of an object holding the request succeeds: every
\* character of the JSON text is in the Latin1 range
Encodable(r) == r.state /= WideState

AuthRequests ==
    {MkAuthRequest("c1", "https://app.example/cb"),
     MkAuthRequest("c2", "http://localhost:3334/cb"),
     MkAuthRequest("", "https://app.example/cb")}

\* ---- the text carried by the second cookie segment, once decoded ----
\* kind "array": the JSON text of an array of strings (v); "mixed": of an
\* array with a non-string element; "object": of a JSON value that is not an
\* array; "text": not JSON at all.
MkPayload(k, v) == [kind |-> k, v |-> v]

NoPayload == MkPayload("none", <<>>)

\* JSON.stringify(updatedApprovedClients)
JsonStringify(list) == MkPayload("array", list)

\* JSON.parse(payload): the parsed value, or "throw" (SyntaxError)
JsonParse(payload) ==
    IF payload.kind \in {"array", "mixed", "object"} THEN payload ELSE MkPayload("throw", <<>>)

\* ---- keys and HMAC ----
ServiceSecret == "COOKIE_ENCRYPTION_KEY"

ForeignSecret == "some-other-key"

\* crypto.subtle.sign("HMAC", key, data): the tag binds the key and the data
Hmac(key, data) == [key |-> key, data |-> data]

NoMac == Hmac("", NoPayload)

\* ---- cookie segments (the strings between the dots of the cookie value) ----
\* kind "hex": hex digits of a MAC, lower or upper case; "b64": the base64 text
\* of a payload; "empty": the empty string; "junk": characters that are neither
\* hex digits nor base64, such as "!!!".
MkSegment(k, mac, upper, p) == [kind |-> k, mac |-> mac, upper |-> upper, p |-> p]

EmptySegment == MkSegment("empty", NoMac, FALSE, NoPayload)

JunkSegment == MkSegment("junk", NoMac, FALSE, NoPayload)

\* bytes -> b.toString(16).padStart(2, "0") joined: lower-case hex
ToHex(mac) == MkSegment("hex", mac, FALSE, NoPayload)

\* the same digits in upper case
ToUpperHex(mac) == MkSegment("hex", mac, TRUE, NoPayload)

\* signatureHex.match(/.{1,2}/g)!.map(b => Number.parseInt(b, 16)): the bytes,
\* or "throw" when match() finds nothing.  parseInt accepts either case; a
\* pair that is not hex gives NaN, stored as a zero byte.
HexToBytes(seg) ==
    CASE seg.kind = "empty" -> [ok |-> FALSE, mac |-> NoMac]
      [] seg.kind = "hex"   -> [ok |-> TRUE, mac |-> seg.mac]
      [] OTHER              -> [ok |-> TRUE, mac |-> NoMac]

\* btoa(payload)
Btoa(payload) == MkSegment("b64", NoMac, FALSE, payload)

\* atob(segment): the decoded text, or "throw" (InvalidCharacterError).
\* The empty string and a string of hex digits are valid base64 and decode
\* to text that is not JSON.
Atob(seg) ==
    CASE seg.kind = "b64"  -> [ok |-> TRUE, text |-> seg.p]
      [] seg.kind = "junk" -> [ok |-> FALSE, text |-> NoPayload]
      [] OTHER             -> [ok |-> TRUE, text |-> MkPayload("text", <<>>)]

\* signData(key, data)
signData(key, data) == ToHex(Hmac(key, data))

\* Faulty variant of verifySignature: every signature is accepted.
verifySignature_AcceptAll(key, signatureHex, data) == TRUE

\* verifySignature(key, signatureHex, data); any throw inside gives false
verifySignature(key, signatureHex, data) ==
    LET bytes == HexToBytes(signatureHex) IN
    IF ~bytes.ok THEN FALSE ELSE bytes.mac = Hmac(key, data)

\* ---- the Cookie header ----
\* none: no Cookie header; target: a cookie named mcp-approved-clients is in
\* it; parts: its value split on "."
COOKIE_NAME == "mcp-approved-clients"

MkCookie(present, target, parts) == [present |-> present, target |-> target, parts |-> parts]

NoCookieHeader == MkCookie(FALSE, FALSE, <<>>)

OtherCookiesOnly == MkCookie(TRUE, FALSE, <<>>)

\* `${signature}.${btoa(payload)}`
ApprovalCookie(signature, payload) == MkCookie(TRUE, TRUE, <<signature, Btoa(payload)>>)

\* Faulty variant of getApprovedClientsFromCookie: the list is read without
\* the signature being verified.
getApprovedClientsFromCookie_Unverified(cookie, secret) ==
    LET null == [threw |-> FALSE, isNull |-> TRUE, list |-> <<>>] IN
    IF ~cookie.present \/ ~cookie.target \/ Len(cookie.parts) /= 2 THEN null
    ELSE LET decoded == Atob(cookie.parts[2]) IN
         IF ~decoded.ok THEN [threw |-> TRUE, isNull |-> TRUE, list |-> <<>>]
         ELSE IF JsonParse(decoded.text).kind = "array"
              THEN [threw |-> FALSE, isNull |-> FALSE, list |-> JsonParse(decoded.text).v]
              ELSE null

\* getApprovedClientsFromCookie(cookieHeader, secret):
\* [threw |-> TRUE] when atob rejects the payload segment, otherwise
\* [isNull |-> ..., list |-> ...]
getApprovedClientsFromCookie(cookie, secret) ==
    LET null == [threw |-> FALSE, isNull |-> TRUE, list |-> <<>>] IN
    IF ~cookie.present THEN null
    ELSE IF ~cookie.target THEN null
    ELSE IF Len(cookie.parts) /= 2 THEN null
    ELSE LET signatureHex == cookie.parts[1]
             decoded == Atob(cookie.parts[2])
         IN  IF ~decoded.ok THEN [threw |-> TRUE, isNull |-> TRUE, list |-> <<>>]
             ELSE IF ~verifySignature(secret, signatureHex, decoded.text) THEN null
             ELSE LET approvedClients == JsonParse(decoded.text) IN
                  IF approvedClients.kind = "array"
                  THEN [threw |-> FALSE, isNull |-> FALSE, list |-> approvedClients.v]
                  ELSE null

\* x \in range of the sequence
Includes(list, x) == \E i \in 1..Len(list) : list[i] = x

\* Faulty variant of clientIdAlreadyApproved: a cookie that verifies counts as
\* approval of whichever client asks.
clientIdAlreadyApproved_AnyList(cookie, clientId, secret) ==
    IF clientId = "" THEN "no"
    ELSE LET approvedClients == getApprovedClientsFromCookie(cookie, secret) IN
         IF approvedClients.threw THEN "throw"
         ELSE IF approvedClients.isNull THEN "no"
         ELSE "yes"

\* clientIdAlreadyApproved(request, clientId, cookieSecret): "yes", "no" or "throw"
clientIdAlreadyApproved(cookie, clientId, secret) ==
    IF clientId = "" THEN "no"
    ELSE LET approvedClients == getApprovedClientsFromCookie(cookie, secret) IN
         IF approvedClients.threw THEN "throw"
         ELSE IF approvedClients.isNull THEN "no"
         ELSE IF Includes(approvedClients.list, clientId) THEN "yes" ELSE "no"

\* Array.from(new Set([...existingApprovedClients, clientId]))
AddClient(list, clientId) == IF Includes(list, clientId) THEN list ELSE Append(list, clientId)

\* ---- the state parameter ----
\* kind "ok": btoa(JSON.stringify(v)) of an object; "missing": no parameter;
\* "invalid64": not base64; "notJson": base64 of text that is not JSON
MkState(k, v) == [kind |-> k, v |-> v]

\* what the dialog form carries: btoa(JSON.stringify({ oauthReqInfo }))
FormState(r) == MkState("ok", [hasReqInfo |-> TRUE, request |-> r, clientType |-> ""])

\* Faulty variant of UpstreamState: the client's own state value is left out.
UpstreamState_NoClientState(r) ==
    MkState("ok", [hasReqInfo |-> FALSE, request |-> [r EXCEPT !.state = ""],
                   clientType |-> clientType(r.redirectUri)])

\* what the upstream redirect carries: btoa(JSON.stringify({...oauthReqInfo, clientType}))
UpstreamState(r) ==
    MkState("ok", [hasReqInfo |-> FALSE, request |-> r, clientType |-> clientType(r.redirectUri)])

BadStates ==
    {MkState(k, [hasReqInfo |-> FALSE, request |-> NoAuthRequest, clientType |-> ""]) :
        k \in {"missing", "invalid64", "notJson"}}

\* decodeState / JSON.parse(atob(state)): the object, or "throw"
decodeState(encoded) == IF encoded.kind = "ok" THEN [ok |-> TRUE, v |-> encoded.v]
                        ELSE [ok |-> FALSE, v |-> encoded.v]

\* state?.oauthReqInfo?.clientId of a decoded dialog state
FormClientId(state) == IF state.hasReqInfo THEN state.request.clientId ELSE ""

\* Faulty variant of CallbackClientId: states tagged as local are turned away.
CallbackClientId_RemoteOnly(state) ==
    IF state.hasReqInfo \/ state.clientType = "mcp-remote" THEN "" ELSE state.request.clientId

\* oauthReqInfo.clientId of a decoded callback state (top-level field)
CallbackClientId(state) == IF state.hasReqInfo THEN "" ELSE state.request.clientId

FormStates ==
    {FormState(r) : r \in AuthRequests}
    \cup {UpstreamState(MkAuthRequest("c1", "https://app.example/cb"))}
    \cup {MkState("invalid64", [hasReqInfo |-> FALSE, request |-> NoAuthRequest, clientType |-> ""])}

CallbackStates ==
    {UpstreamState(r) : r \in AuthRequests}
    \cup {FormState(MkAuthRequest("c1", "https://app.example/cb"))}
    \cup BadStates

Codes == {"", "ms-code-1"}

\* Cookies a caller can present.  It holds the cookies the service has set
\* (signed), can sign with a key of its own, and can cut and splice segments.
GenuineCookies(signed) ==
    {ApprovalCookie(signData(ServiceSecret, JsonStringify(l)), JsonStringify(l)) : l \in signed}

\* the signature of a one-element list re-cased, or put in front of a longer list
AlteredCookies(signed) ==
    LET short == {l \in signed : Len(l) = 1} IN
    {ApprovalCookie(ToUpperHex(Hmac(ServiceSecret, JsonStringify(l))), JsonStringify(l)) : l \in short}
    \cup {ApprovalCookie(signData(ServiceSecret, JsonStringify(l)), JsonStringify(<<"c1", "c2">>)) : l \in short}

ForgedCookies ==
    {ApprovalCookie(signData(ForeignSecret, p), p) :
        p \in {JsonStringify(<<"c1">>), MkPayload("object", <<>>)}}

MalformedCookies ==
    LET p == JsonStringify(<<"c1">>)
        sig == signData(ForeignSecret, p)
    IN  {MkCookie(TRUE, TRUE, <<EmptySegment, Btoa(p)>>),
         MkCookie(TRUE, TRUE, <<JunkSegment, Btoa(p)>>),
         MkCookie(TRUE, TRUE, <<sig, JunkSegment>>),
         MkCookie(TRUE, TRUE, <<sig>>),
         MkCookie(TRUE, TRUE, <<sig, Btoa(p), EmptySegment>>)}

Cookies(signed) ==
    {NoCookieHeader, OtherCookiesOnly}
    \cup GenuineCookies(signed) \cup AlteredCookies(signed)
    \cup ForgedCookies \cup MalformedCookies

(***************************************************************************)
(* Authorization Broker: the three handlers                                *)
(***************************************************************************)
NoBrokerRequest ==
    [handler |-> "none", request |-> NoAuthRequest, cookie |-> NoCookieHeader,
     state |-> MkState("missing", [hasReqInfo |-> FALSE, request |-> NoAuthRequest, clientType |-> ""]),
     code |-> "", origin |-> ServiceOrigin]

MkBrokerRequest(h, r, cookie, state, code) ==
    [handler |-> h, request |-> r, cookie |-> cookie, state |-> state, code |-> code,
     origin |-> ServiceOrigin]

\* the same request, reached under origin
MkBrokerRequestAt(origin, h, r, cookie, state, code) ==
    [MkBrokerRequest(h, r, cookie, state, code) EXCEPT !.origin = origin]

\* kind: "dialog", "redirect-upstream", "redirect-client", "invalid" (400),
\* "error" (500: the handler threw); redirects carry the request they are for
MkBrokerResponse(status, kind, r, setCookie) ==
    [status |-> status, kind |-> kind, request |-> r, setCookie |-> setCookie,
     redirectUri |-> NoUrl]

NoBrokerResponse == MkBrokerResponse(0, "none", NoAuthRequest, NoCookieHeader)

\* redirectToMicrosoft(request, oauthReqInfo, env, headers): 302 to the
\* Microsoft authorize URL, state = btoa(JSON.stringify({...oauthReqInfo, clientType}))
\* the redirect_uri parameter of the location is new URL("/callback", request.url).href
redirectToMicrosoftAt(origin, r, setCookie) ==
    [MkBrokerResponse(302, "redirect-upstream", r, setCookie)
        EXCEPT !.redirectUri = Url(origin, "/callback")]

redirectToMicrosoft(r, setCookie) == redirectToMicrosoftAt(ServiceOrigin, r, setCookie)

\* renderApprovalDialog(...): 200, HTML form carrying FormState(r)
renderApprovalDialog(r) == MkBrokerResponse(200, "dialog", r, NoCookieHeader)

\* an exception that leaves the handler: the framework answers 500
InternalServerError == MkBrokerResponse(500, "error", NoAuthRequest, NoCookieHeader)

\* c.text(..., 400)
BadRequest == MkBrokerResponse(400, "invalid", NoAuthRequest, NoCookieHeader)

BrokerInit ==
    /\ bReq = NoBrokerRequest
    /\ bResp = NoBrokerResponse
    /\ signedPayloads = {}
    /\ approved = {}
    /\ redirected = {}
    /\ completed = {}
    /\ kvStaticClient = FALSE
    /\ pendingProps = {}

BrokerIdle == BrokerInit

\* const MCP_CLIENT_ID: the static client initializeMCPClient registers
MCP_CLIENT_ID == "c1"

\* OAUTH_PROVIDER.lookupClient(clientId): the record stored under
\* client:<id>, or null; only the static client's record is ever stored
lookupClient(clientId, kv) ==
    IF kv /\ clientId = MCP_CLIENT_ID THEN "Microsoft 365 MCP Static Client" ELSE "null"

\* app.get("/authorize"), reached under origin.  The client record looked up
\* for the dialog is only displayed ("Unknown MCP Client" when it is null).
GetAuthorizeAt(origin, r, cookie) ==
    LET already == clientIdAlreadyApproved(cookie, r.clientId, ServiceSecret)
        answer == IF r.clientId = "" THEN BadRequest
                  ELSE IF already = "throw" THEN InternalServerError
                  ELSE IF ~Encodable(r) THEN InternalServerError
                  ELSE IF already = "yes" THEN redirectToMicrosoftAt(origin, r, NoCookieHeader)
                  ELSE renderApprovalDialog(r)
    IN  /\ bReq' = MkBrokerRequestAt(origin, "GET /authorize", r, cookie,
                                      NoBrokerRequest.state, "")
        /\ bResp' = answer
        /\ kvStaticClient' = TRUE
        /\ redirected' = IF answer.kind = "redirect-upstream" THEN redirected \cup {r} ELSE redirected
        /\ UNCHANGED <<signedPayloads, approved, completed, pendingProps>>
        /\ UNCHANGED otherThanBroker

GetAuthorize(r, cookie) == GetAuthorizeAt(ServiceOrigin, r, cookie)

\* app.post("/authorize") with parseRedirectApproval, reached under origin
PostAuthorizeAt(origin, form, cookie) ==
    LET decoded == decodeState(form)
        clientId == IF decoded.ok THEN FormClientId(decoded.v) ELSE ""
        existing == getApprovedClientsFromCookie(cookie, ServiceSecret)
        existingApprovedClients == IF existing.isNull THEN <<>> ELSE existing.list
        updatedApprovedClients == AddClient(existingApprovedClients, clientId)
        payload == JsonStringify(updatedApprovedClients)
        newCookie == ApprovalCookie(signData(ServiceSecret, payload), payload)
        failed == ~decoded.ok \/ clientId = "" \/ existing.threw
        r == decoded.v.request
    IN  /\ bReq' = MkBrokerRequestAt(origin, "POST /authorize", NoAuthRequest, cookie, form, "")
        /\ bResp' = IF failed THEN InternalServerError
                    ELSE redirectToMicrosoftAt(origin, r, newCookie)
        /\ signedPayloads' = IF failed THEN signedPayloads
                             ELSE signedPayloads \cup {updatedApprovedClients}
        /\ approved' = IF failed THEN approved ELSE approved \cup {clientId}
        /\ redirected' = IF failed THEN redirected ELSE redirected \cup {r}
        /\ UNCHANGED <<completed, kvStaticClient, pendingProps>>
        /\ UNCHANGED otherThanBroker

PostAuthorize(form, cookie) == PostAuthorizeAt(ServiceOrigin, form, cookie)

\* Faulty variant of CallbackUrlAt: the callback URL is a configured one, not
\* the one the request came in on.
CallbackUrlAt_Configured(origin) == Url(ServiceOrigin, "/callback")

\* new URL("/callback", c.req.url).href
CallbackUrlAt(origin) == Url(origin, "/callback")

CallbackUrl == CallbackUrlAt(ServiceOrigin)

\* The props of a grant: what GET /callback stores, and the token fields the
\* token exchange adds.  A field that is not set is Undefined.
MkGrantProps(code, uri, tag, at, tt, sc, rt) ==
    [microsoftAuthCode |-> code, microsoftRedirectUri |-> uri, clientType |-> tag,
     microsoftAccessToken |-> at, microsoftTokenType |-> tt, microsoftScope |-> sc,
     microsoftRefreshToken |-> rt]

\* props: { microsoftAuthCode, microsoftRedirectUri, clientType }
CallbackProps(code, uri, tag) ==
    MkGrantProps(code, uri, tag, Undefined, Undefined, Undefined, Undefined)

\* completeAuthorization({ request, props, ... }): the grant it records
MkGrant(r, p) == [request |-> r, props |-> p]

\* Faulty variant of HasCode: a missing code is let through.
HasCode_Any(code) == TRUE

\* if (!microsoftAuthCode) return c.text("No authorization code ...", 400)
HasCode(code) == code /= ""

\* app.get("/callback"), reached under origin
GetCallbackAt(origin, state, code) ==
    LET stateData == decodeState(state)
        clientId == IF stateData.ok THEN CallbackClientId(stateData.v) ELSE ""
        r == stateData.v.request
        tag == IF stateData.v.clientType = "" THEN "mcp-remote" ELSE stateData.v.clientType
        answer == IF ~stateData.ok THEN InternalServerError
                  ELSE IF clientId = "" THEN BadRequest
                  ELSE IF ~HasCode(code) THEN BadRequest
                  ELSE MkBrokerResponse(302, "redirect-client", r, NoCookieHeader)
    IN  /\ bReq' = MkBrokerRequestAt(origin, "GET /callback", NoAuthRequest, NoCookieHeader,
                                      state, code)
        /\ bResp' = answer
        /\ completed' = IF answer.kind = "redirect-client" THEN completed \cup {r} ELSE completed
        /\ pendingProps' = IF answer.kind = "redirect-client"
                           THEN pendingProps \cup
                                    {MkGrant(r, CallbackProps(code, CallbackUrlAt(origin), tag))}
                           ELSE pendingProps
        /\ UNCHANGED <<signedPayloads, approved, redirected, kvStaticClient>>
        /\ UNCHANGED otherThanBroker

GetCallback(state, code) == GetCallbackAt(ServiceOrigin, state, code)

BrokerNext ==
    \/ \E r \in AuthRequests, cookie \in Cookies(signedPayloads) : GetAuthorize(r, cookie)
    \/ \E form \in FormStates, cookie \in Cookies(signedPayloads) : PostAuthorize(form, cookie)
    \/ \E state \in CallbackStates, code \in Codes : GetCallback(state, code)

(***************************************************************************)
(* Token Bridge: data                                                      *)
(***************************************************************************)
Ops == 1..NumOps

\* Faulty variant of ExchangeParams: a fixed code is sent.
ExchangeParams_FixedCode(code, redirectUri) ==
    [grant_type |-> "authorization_code", code |-> "ms-code-1", redirect_uri |-> redirectUri,
     refresh_token |-> Undefined]

\* what the upstream token endpoint can be sent
ExchangeParams(code, redirectUri) ==
    [grant_type |-> "authorization_code", code |-> code, redirect_uri |-> redirectUri,
     refresh_token |-> Undefined]

RefreshParams(refreshToken) ==
    [grant_type |-> "refresh_token", code |-> Undefined, redirect_uri |-> Undefined,
     refresh_token |-> refreshToken]

NoParams == [grant_type |-> "none", code |-> Undefined, redirect_uri |-> Undefined,
             refresh_token |-> Undefined]

\* the access token the upstream issues: one for a code, another on refresh
IssuedAccessToken(grantType) == IF grantType = "authorization_code" THEN "at-1" ELSE "at-2"

\* the refresh token the upstream issues, when it sends one
IssuedRefreshToken(grantType) == IF grantType = "authorization_code" THEN "rt-1" ELSE "rt-2"

\* MicrosoftTokenResponse, or a non-success response with its status and body
MkTokenResponse(ok, status, body, at, rt, exp) ==
    [ok |-> ok, status |-> status, body |-> body, access_token |-> at,
     token_type |-> IF ok THEN "Bearer" ELSE Undefined,
     scope |-> IF ok THEN "User.Read offline_access" ELSE Undefined,
     refresh_token |-> rt, expires_in |-> exp]

NoTokenResponse == MkTokenResponse(FALSE, 0, "", Undefined, Undefined, 0)

ExpiresInValues == {1, 2}

TokenResponses(grantType) ==
    {MkTokenResponse(TRUE, 200, "", IssuedAccessToken(grantType), rt, exp) :
        rt \in {Undefined, "", IssuedRefreshToken(grantType)}, exp \in ExpiresInValues}
    \cup {MkTokenResponse(FALSE, st, "invalid_grant", Undefined, Undefined, 0) : st \in {400, 503}}

\* new Error(`Microsoft token exchange failed: ${response.status} ${error}`) and
\* the other errors the callback throws
MkTokenError(message, status, body) == [message |-> message, status |-> status, body |-> body]

NoTokenError == MkTokenError("", 0, "")

\* Faulty variant of UpstreamFailure: the error names neither status nor body.
UpstreamFailure_Bare(grantType, response) ==
    MkTokenError("Microsoft token request failed", 0, "")

\* if (!response.ok) throw new Error(`... failed: ${response.status} ${error}`)
UpstreamFailure(grantType, response) ==
    MkTokenError(IF grantType = "authorization_code" THEN "Microsoft token exchange failed"
                 ELSE "Microsoft token refresh failed",
                 response.status, response.body)

\* newProps of the authorization_code branch
ExchangeNewProps(p, tokens) ==
    [p EXCEPT !.microsoftAccessToken = tokens.access_token,
              !.microsoftTokenType = tokens.token_type,
              !.microsoftScope = tokens.scope,
              !.microsoftRefreshToken = tokens.refresh_token]

\* Faulty variant of RefreshNewProps: the upstream's refresh token is stored
\* even when the upstream sent none.
RefreshNewProps_Overwrite(p, tokens, refreshToken) ==
    [p EXCEPT !.microsoftAccessToken = tokens.access_token,
              !.microsoftTokenType = tokens.token_type,
              !.microsoftScope = tokens.scope,
              !.microsoftRefreshToken = tokens.refresh_token]

\* newProps of the refresh_token branch:
\* microsoftRefreshToken: microsoftTokens.refresh_token || refreshToken
RefreshNewProps(p, tokens, refreshToken) ==
    [p EXCEPT !.microsoftAccessToken = tokens.access_token,
              !.microsoftTokenType = tokens.token_type,
              !.microsoftScope = tokens.scope,
              !.microsoftRefreshToken = IF Truthy(tokens.refresh_token)
                                        THEN tokens.refresh_token ELSE refreshToken]

\* accessTokenTTL: microsoftTokens.expires_in
AccessTokenTTL(tokens) == tokens.expires_in

\* the grants a session can belong to
ValidRequests == {r \in AuthRequests : r.clientId /= ""}

BridgeCodes == {"", "ms-code-1"}

ExchangeCodes == {"", "ms-code-1", "ms-code-2"}

\* the requests of the flows a client runs from GET /authorize to the code
\* exchange: two clients with different scopes and client states, and a
\* request whose client state btoa rejects
FlowRequests ==
    {MkAuthRequest("c1", "https://app.example/cb"),
     AuthRequest("c2", "http://localhost:3334/cb", "S2", "X2"),
     AuthRequest("c1", "https://app.example/cb", "S", WideState)}

\* values of the classification tag a state can carry ("" when it has none)
Tags == {"", "mcp-remote", "web-connector"}

AllGrants ==
    {MkGrant(r, CallbackProps(code, CallbackUrl, tag)) :
        r \in ValidRequests, code \in ExchangeCodes \ {""}, tag \in Tags \ {""}}
    \cup {MkGrant(r, CallbackProps(code, CallbackUrlAt(origin), tag)) :
            r \in {q \in FlowRequests : Encodable(q)},
            code \in BridgeCodes \ {""}, tag \in Tags \ {""}, origin \in Origins}

NoGrant == MkGrant(NoAuthRequest, CallbackProps(Undefined, Undefined, Undefined))

NoGrantProps == CallbackProps(Undefined, Undefined, Undefined)

\* The session credential the provider issues with a token response: its TTL,
\* the expires_in of the upstream token behind it, and how long after the
\* upstream issued that token the credential was issued.
MkCredential(ttl, upstreamExpiresIn, lag) ==
    [ttl |-> ttl, upstreamExpiresIn |-> upstreamExpiresIn, lag |-> lag]

NoCredential == MkCredential(0, 0, 0)

\* One invocation of tokenExchangeCallback in progress: its position ("idle"
\* or "calling"), the grant, options.grantType, options.props and the
\* parameters sent upstream.
MkOp(at, g, grantType, p, sent) ==
    [pc |-> at, grant |-> g, grantType |-> grantType, props |-> p, sent |-> sent]

IdleOp == MkOp("idle", NoGrant, "none", NoGrantProps, NoParams)

\* How an invocation ended: "done" (it returned) or "failed" (it threw), the
\* error thrown, the upstream calls it had made and the response it got.
MkOutcome(result, g, grantType, error, calls, response) ==
    [result |-> result, grant |-> g, grantType |-> grantType, error |-> error, calls |-> calls,
     response |-> response]

NoOutcome == MkOutcome("none", NoGrant, "none", NoTokenError, 0, NoTokenResponse)

GrantTypes == {"authorization_code", "refresh_token", "client_credentials"}

(***************************************************************************)
(* Token Bridge: tokenExchangeCallback with exchangeMicrosoftTokens and    *)
(* refreshMicrosoftTokens                                                  *)
(***************************************************************************)
BridgeInit ==
    /\ ops = [op \in Ops |-> IdleOp]
    /\ sessionProps = [g \in AllGrants |-> NoGrantProps]
    /\ credential = [g \in AllGrants |-> NoCredential]
    /\ upstreamCalls = [op \in Ops |-> 0]
    /\ outcome = NoOutcome

BridgeIdle == BridgeInit

\* options.props for a token request on grant g
OptionsProps(g, grantType) ==
    IF grantType = "authorization_code" THEN g.props ELSE sessionProps[g]

\* The provider receives a token request for grant g and invokes
\* tokenExchangeCallback; the callback runs up to its upstream fetch, or throws.
TokenRequest(op, g, grantType) ==
    LET p == OptionsProps(g, grantType)
        secret == IF grantType = "authorization_code" THEN p.microsoftAuthCode
                  ELSE p.microsoftRefreshToken
        sent == IF grantType = "authorization_code"
                THEN ExchangeParams(p.microsoftAuthCode, p.microsoftRedirectUri)
                ELSE RefreshParams(p.microsoftRefreshToken)
        thrown == IF grantType = "authorization_code"
                      THEN MkTokenError("No Microsoft authorization code available", 0, "")
                  ELSE IF grantType = "refresh_token"
                      THEN MkTokenError("No Microsoft refresh token available", 0, "")
                  ELSE MkTokenError("Unsupported grant type", 0, "")
        supported == grantType \in {"authorization_code", "refresh_token"}
    IN  /\ ops[op].pc = "idle"
        /\ \A o \in Ops : o < op => ops[o].pc = "calling"
        /\ g \in pendingProps
        /\ grantType = "authorization_code" => sessionProps[g] = NoGrantProps
        /\ grantType /= "authorization_code" => sessionProps[g] /= NoGrantProps
        /\ IF supported /\ Truthy(secret)
           THEN /\ ops' = [ops EXCEPT ![op] = MkOp("calling", g, grantType, p, sent)]
                /\ upstreamCalls' = [upstreamCalls EXCEPT ![op] = upstreamCalls[op] + 1]
                /\ UNCHANGED outcome
           ELSE /\ outcome' = MkOutcome("failed", g, grantType, thrown, upstreamCalls[op],
                                        NoTokenResponse)
                /\ UNCHANGED <<ops, upstreamCalls>>
        /\ UNCHANGED <<sessionProps, credential>>
        /\ UNCHANGED otherThanBridge

\* The upstream token endpoint answers the fetch, latency after it issued the
\* token, and the callback resumes: it throws on a non-success response,
\* otherwise it returns { newProps, accessTokenTTL } and the provider stores
\* the props and issues the session credential.
TokenReturn(op, response, latency) ==
    LET o == ops[op]
        newProps == IF o.grantType = "authorization_code"
                    THEN ExchangeNewProps(o.props, response)
                    ELSE RefreshNewProps(o.props, response, o.props.microsoftRefreshToken)
        ttl == AccessTokenTTL(response)
    IN  /\ o.pc = "calling"
        /\ IF ~response.ok
           THEN /\ outcome' = MkOutcome("failed", o.grant, o.grantType,
                                        UpstreamFailure(o.grantType, response), upstreamCalls[op],
                                        response)
                /\ UNCHANGED <<sessionProps, credential>>
           ELSE /\ outcome' = MkOutcome("done", o.grant, o.grantType, NoTokenError,
                                        upstreamCalls[op], response)
                /\ sessionProps' = [sessionProps EXCEPT ![o.grant] = newProps]
                /\ credential' = [credential EXCEPT ![o.grant] =
                                     MkCredential(ttl, response.expires_in, latency)]
        /\ ops' = [ops EXCEPT ![op] = IdleOp]
        /\ upstreamCalls' = [upstreamCalls EXCEPT ![op] = 0]
        /\ UNCHANGED otherThanBridge

\* the callbacks this specification drives the bridge with
BridgeCallbackStates == {UpstreamState(MkAuthRequest("c1", "https://app.example/cb"))}

\* time between the upstream issuing a token and the callback returning it:
\* none, or one unit
Latencies == {0, 1}

BridgeNext ==
    \/ \E state \in BridgeCallbackStates, code \in BridgeCodes : GetCallback(state, code)
    \/ \E op \in Ops, g \in AllGrants, grantType \in GrantTypes : TokenRequest(op, g, grantType)
    \/ \E op \in Ops : \E response \in TokenResponses(ops[op].grantType), latency \in Latencies :
           TokenReturn(op, response, latency)

(***************************************************************************)
(* Specifications                                                          *)
(***************************************************************************)
InitActor == ActorInit /\ RouterIdle /\ BrokerIdle /\ BridgeIdle

SpecActor == InitActor /\ [][ActorNext]_vars

\* One request without a JSON body, under every combination of its transport
\* headers.
TransportNext ==
    \/ \E r \in TransportRequests : FetchRequest(1, r)
    \/ Classify(1)
    \/ HandlerRun(1)
    \/ SuperFails(1)
    \/ FetchReturn(1)

SpecTransport == InitActor /\ [][TransportNext]_vars

InitRouter == RouterInit /\ ActorIdle /\ BrokerIdle /\ BridgeIdle

SpecRouter == InitRouter /\ [][RouterNext]_vars

InitBroker == BrokerInit /\ ActorIdle /\ RouterIdle /\ BridgeIdle

SpecBroker == InitBroker /\ [][BrokerNext]_vars

InitBridge == BridgeInit /\ BrokerIdle /\ ActorIdle /\ RouterIdle

SpecBridge == InitBridge /\ [][BridgeNext]_vars

\* The callback and the code exchange that follows it, with two upstream codes.
ExchangeNext ==
    \/ \E state \in BridgeCallbackStates, code \in ExchangeCodes : GetCallback(state, code)
    \/ \E op \in Ops, g \in AllGrants : TokenRequest(op, g, "authorization_code")
    \/ \E op \in Ops : \E response \in TokenResponses(ops[op].grantType), latency \in Latencies :
           TokenReturn(op, response, latency)

SpecExchange == InitBridge /\ [][ExchangeNext]_vars

\* the hidden state field of the dialog's form
HiddenState(response) == FormState(response.request)

\* the state parameter of the redirect's location
LocationState(response) == UpstreamState(response.request)

\* the same state with another classification tag in it
WithTag(state, tag) == [state EXCEPT !.v.clientType = tag]

\* the upstream's answers to the code exchange of a flow: tokens, or a refusal
FlowResponses ==
    {t \in TokenResponses("authorization_code") :
        \/ t.ok /\ t.refresh_token = IssuedRefreshToken("authorization_code") /\ t.expires_in = 1
        \/ ~t.ok /\ t.status = 400}

\* A client's flow: it visits /authorize, with no cookie or one the service
\* set; it submits the dialog it was shown; the upstream sends it back to the
\* redirect_uri of the redirect it followed, with the state of that redirect
\* and a code; then the code is exchanged.
FlowStart(origin, r, cookie) ==
    /\ Cardinality(redirected \cup {r}) <= MaxFlows
    /\ GetAuthorizeAt(origin, r, cookie)

FlowSubmit(cookie) ==
    /\ bResp.kind = "dialog"
    /\ Cardinality(redirected \cup {bResp.request}) <= MaxFlows
    /\ PostAuthorizeAt(bReq.origin, HiddenState(bResp), cookie)

FlowCallback(code) ==
    /\ bResp.kind = "redirect-upstream"
    /\ code /= "" => Cardinality(pendingProps) < MaxFlows
    /\ GetCallbackAt(bResp.redirectUri.origin, LocationState(bResp), code)

\* the callback of a flow whose state carries another tag, or none
FlowTaggedCallback(tag, code) ==
    /\ bResp.kind = "redirect-upstream"
    /\ tag /= LocationState(bResp).v.clientType
    /\ code /= "" => Cardinality(pendingProps) < MaxFlows
    /\ GetCallbackAt(bResp.redirectUri.origin, WithTag(LocationState(bResp), tag), code)

FlowNext ==
    \/ \E origin \in Origins, r \in FlowRequests,
          cookie \in {NoCookieHeader} \cup GenuineCookies(signedPayloads) :
           FlowStart(origin, r, cookie)
    \/ \E cookie \in {NoCookieHeader} \cup GenuineCookies(signedPayloads) : FlowSubmit(cookie)
    \/ \E code \in BridgeCodes : FlowCallback(code)
    \/ \E tag \in Tags, code \in BridgeCodes : FlowTaggedCallback(tag, code)
    \/ \E op \in Ops, g \in AllGrants : TokenRequest(op, g, "authorization_code")
    \/ \E op \in Ops : \E response \in FlowResponses : TokenReturn(op, response, 0)

SpecFlow == InitBridge /\ [][FlowNext]_vars

(***************************************************************************)
(* Session Actor: claims                                                   *)
(***************************************************************************)
IsGraphRequest(r) ==
    \/ r.method = "tools/call" /\ r.name \in GraphTools
    \/ r.method = "resources/read" /\ r.name \in GraphResources

\* The step in which message m's registered handler runs.
HandlerStep(m) == pc[m] = "inSuper" /\ pc'[m] \in {"handled", "inGraph"}

\* C1: a tool or resource handler calls the Graph client only in a state where
\* this.props holds a non-empty microsoftAccessToken, and passes exactly that
\* token; with the context absent or without a token no Graph call is made.
C1_GraphOnlyWithToken ==
    [][\A c \in graphCalls' \ graphCalls :
            /\ props.tag = "props"
            /\ Truthy(AccessTokenOf(props))
            /\ c.token = AccessTokenOf(props)]_vars

\* C1 witness: a Graph call has been made for one message while another tool
\* call was refused for want of a token.
C1_Witness ==
    /\ graphCalls /= {}
    /\ \E m \in Msgs : resp[m] = getAuthErrorResponse

C10_RaceFree ==
    /\ \A m \in Msgs :
        (/\ Truthy(AccessTokenOf(attached))
         /\ branch[m] = "standard"
         /\ IsGraphRequest(req[m]))
            => ~IsAuthenticationRequired(resp[m])
    /\ (\A m \in Msgs : pc[m] \in {"idle", "done"}) => props = attached

(***************************************************************************)
(* Protocol Router: claims                                                 *)
(***************************************************************************)
\* Segments of a credential when both ":" and "." delimit.
ColonDotSegments(c) == 1 + Cardinality({i \in 1..Len(c) : c[i] \in {":", "."}})

\* A header of the form "Bearer <credential>"; the credential may be empty.
IsBearerRequest(r) == r.hasAuth /\ r.scheme = "Bearer" /\ r.sep = 1

\* C7: on the multiplexed endpoint a request without a credential, or with a
\* bearer credential that does not have exactly three colon/dot-delimited
\* segments, is classified as discovery, and one with exactly three segments
\* as authenticated.
C7_SegmentClassification ==
    (rPc \in {"classified", "failed"} /\ IsMcpPath(rReq.path)) =>
        /\ ~rReq.hasAuth => rClass = "discovery"
        /\ IsBearerRequest(rReq) =>
               rClass = IF ColonDotSegments(rReq.cred) = 3 THEN "oauth" ELSE "discovery"

\* C8: a request classified as discovery goes to the actor named
\* "discovery-session", with no context attached and without the OAuth
\* provider having validated anything, and the discovery actor never holds a
\* caller's context.
C8_DiscoveryShared ==
    /\ (rPc = "dispatched" /\ rClass = "discovery") =>
           /\ rDispatch.kind = "actor"
           /\ rDispatch.target = "discovery-session"
           /\ rDispatch.ctx = NullProps
           /\ ~rDispatch.oauth
    /\ actorCtx["discovery-session"] = NullProps

\* C8 witness: a discovery request that carries a credential has been
\* dispatched while an authenticated session actor holds a caller's context.
C8_Witness ==
    /\ rPc = "dispatched" /\ rClass = "discovery"
    /\ rReq.hasAuth /\ rReq.cred /= <<>>
    /\ actorCtx["session-1"] /= NullProps

(***************************************************************************)
(* Authorization Broker: claims                                            *)
(***************************************************************************)
\* The cookie is an approval record that verifies: two segments, the second
\* decodes, the first holds the HMAC of the decoded text under the service
\* secret, and the text is a JSON array of strings.
CookieVerifies(cookie) ==
    /\ cookie.present /\ cookie.target
    /\ Len(cookie.parts) = 2
    /\ cookie.parts[2].kind = "b64"
    /\ cookie.parts[1].kind = "hex"
    /\ cookie.parts[1].mac = Hmac(ServiceSecret, cookie.parts[2].p)
    /\ cookie.parts[2].p.kind = "array"

\* C4: GET /authorize for client C answers with the upstream redirect only if
\* the request presents an approval cookie whose signature verifies under the
\* service secret and whose payload is a list of client ids containing C; the
\* list is one the service signed and C was approved before.
C4_DirectRedirectOnlyIfApproved ==
    (bReq.handler = "GET /authorize" /\ bResp.kind = "redirect-upstream") =>
        /\ CookieVerifies(bReq.cookie)
        /\ Includes(bReq.cookie.parts[2].p.v, bReq.request.clientId)
        /\ bReq.cookie.parts[2].p.v \in signedPayloads
        /\ bReq.request.clientId \in approved
        /\ bResp.request = bReq.request

\* C4 witness: GET /authorize was answered with the upstream redirect on a
\* cookie that lists the client together with another one.
C4_Witness ==
    /\ bReq.handler = "GET /authorize"
    /\ bResp.kind = "redirect-upstream"
    /\ Len(bReq.cookie.parts) = 2
    /\ Len(bReq.cookie.parts[2].p.v) = 2

\* C5: for every approval cookie that does not verify, GET /authorize (with a
\* client id) answers with the consent dialog, never with an error.
C5_UnverifiableCookieShowsDialog ==
    (/\ bReq.handler = "GET /authorize"
     /\ bReq.request.clientId /= ""
     /\ ~CookieVerifies(bReq.cookie)) => bResp.kind = "dialog"

\* C6: authorization is completed at GET /callback for a request only after
\* an upstream redirect was issued for that same request, and an upstream
\* redirect is issued for a request only after its client was approved.
C6_OrderedFlow ==
    /\ \A r \in completed : r \in redirected
    /\ \A r \in redirected : r.clientId \in approved

(***************************************************************************)
(* Callback and token exchange: claims                                     *)
(***************************************************************************)
\* The last request was a GET /callback whose state decodes to a request
\* with a client id.
CallbackWithValidState ==
    /\ bReq.handler = "GET /callback"
    /\ decodeState(bReq.state).ok
    /\ CallbackClientId(decodeState(bReq.state).v) /= ""

\* the request carried by the state of the last callback
CallbackRequest == decodeState(bReq.state).v.request

\* C11: a GET /callback with a non-empty code and a decodable state completes
\* authorization for the request carried by the state and redirects the
\* caller; it stores exactly the code it received and makes no upstream token
\* call; and a later authorization_code exchange sends the code of its grant.
C11_CallbackThenExchange ==
    /\ [][brokerVars' /= brokerVars =>
            /\ UNCHANGED bridgeVars
            /\ pendingProps' /= pendingProps =>
                   \E p \in pendingProps' :
                       /\ pendingProps' = pendingProps \cup {p}
                       /\ p.request = decodeState(bReq'.state).v.request
                       /\ p.props.microsoftAuthCode = bReq'.code]_vars
    /\ []((CallbackWithValidState /\ bReq.code /= "") =>
            /\ bResp.kind = "redirect-client"
            /\ bResp.request = CallbackRequest
            /\ CallbackRequest \in completed
            /\ \E p \in pendingProps :
                   p.request = CallbackRequest /\ p.props.microsoftAuthCode = bReq.code)
    /\ [](\A op \in Ops :
            (ops[op].pc = "calling" /\ ops[op].grantType = "authorization_code") =>
                /\ ops[op].grant \in pendingProps
                /\ ops[op].sent.code = ops[op].grant.props.microsoftAuthCode
                /\ ops[op].sent.grant_type = "authorization_code"
                /\ upstreamCalls[op] = 1)

\* C11 witness: after callbacks with two different codes, the exchange for the
\* second code is calling the upstream with that code.
C11_Witness ==
    /\ Cardinality(pendingProps) = 2
    /\ \E op \in Ops :
           /\ ops[op].pc = "calling"
           /\ ops[op].sent.code = "ms-code-2"

\* C12: a GET /callback with a valid state and no code answers 400; it
\* completes no authorization, issues no redirect, stores no props, and no
\* token exchange ever runs for it.
C12_CallbackWithoutCode ==
    /\ [][(brokerVars' /= brokerVars /\ bReq'.handler = "GET /callback" /\ bReq'.code = "") =>
            /\ completed' = completed
            /\ pendingProps' = pendingProps
            /\ UNCHANGED bridgeVars]_vars
    /\ []((CallbackWithValidState /\ bReq.code = "") =>
            /\ bResp.status = 400
            /\ bResp.kind = "invalid")
    /\ [](\A p \in pendingProps : p.props.microsoftAuthCode /= "")
    /\ [](\A op \in Ops : ops[op].pc = "calling" => ops[op].grant \in pendingProps)

\* C12 witness: a callback without a code was refused after an earlier
\* callback had completed an authorization.
C12_Witness ==
    /\ CallbackWithValidState
    /\ bReq.code = ""
    /\ bResp.status = 400
    /\ pendingProps /= {}

(***************************************************************************)
(* Token Bridge: claims                                                    *)
(***************************************************************************)
\* The step in which invocation op gets the upstream's answer and ends.
Returned(op) == ops[op].pc = "calling" /\ ops'[op].pc = "idle"

\* the fields of the props that hold no token
UnrelatedFields(p) == <<p.microsoftAuthCode, p.microsoftRedirectUri, p.clientType>>

\* C13: when a refresh succeeds, the props stored for the session are the
\* props the refresh was given with the token fields overlaid: access token,
\* token type and scope are the upstream's new ones, the refresh token is the
\* upstream's new one if that is non-empty and the prior one otherwise, and
\* the fields that hold no token are unchanged.
C13_RefreshMerge ==
    [][\A op \in Ops :
          (Returned(op) /\ ops[op].grantType = "refresh_token" /\ outcome'.result = "done") =>
              LET prior == ops[op].props
                  tokens == outcome'.response
                  after == sessionProps'[ops[op].grant]
              IN  /\ UnrelatedFields(after) = UnrelatedFields(prior)
                  /\ after.microsoftAccessToken = tokens.access_token
                  /\ after.microsoftTokenType = tokens.token_type
                  /\ after.microsoftScope = tokens.scope
                  /\ tokens.refresh_token \notin {Undefined, ""}
                         => after.microsoftRefreshToken = tokens.refresh_token
                  /\ tokens.refresh_token \in {Undefined, ""}
                         => after.microsoftRefreshToken = prior.microsoftRefreshToken
                  /\ \A g \in AllGrants \ {ops[op].grant} :
                         sessionProps'[g] = sessionProps[g]]_vars

\* C13 witness: a refresh whose response carried no refresh token has
\* succeeded, and the session still holds the refresh token of the exchange
\* next to the refreshed access token.
C13_Witness ==
    /\ outcome.result = "done"
    /\ outcome.grantType = "refresh_token"
    /\ outcome.response.refresh_token \in {Undefined, ""}
    /\ sessionProps[outcome.grant].microsoftRefreshToken = IssuedRefreshToken("authorization_code")
    /\ sessionProps[outcome.grant].microsoftAccessToken = IssuedAccessToken("refresh_token")
    /\ sessionProps[outcome.grant].microsoftAuthCode = "ms-code-1"

\* C14: after every code exchange and every refresh the TTL of the session
\* credential equals the upstream access token's expires_in, and a session
\* credential that is still valid is backed by an upstream access token that
\* has not expired: counted from the moment the upstream issued its token,
\* the credential ends no later than the token does.
C14_SessionBackedByUpstream ==
    \A g \in AllGrants :
        credential[g] /= NoCredential =>
            /\ credential[g].ttl = credential[g].upstreamExpiresIn
            /\ credential[g].lag + credential[g].ttl <= credential[g].upstreamExpiresIn

\* C15: refreshes of one upstream refresh token are serialised: while one
\* invocation is in its upstream refresh call, no other invocation is in an
\* upstream refresh call with the same refresh token.
C15_RefreshMutex ==
    \A o1, o2 \in Ops :
        (/\ ops[o1].pc = "calling" /\ ops[o1].grantType = "refresh_token"
         /\ ops[o2].pc = "calling" /\ ops[o2].grantType = "refresh_token"
         /\ ops[o1].sent.refresh_token = ops[o2].sent.refresh_token) => o1 = o2

HasUpgradeSignal(r) ==
    \/ toLowerCase(r.upgrade) = "websocket"
    \/ r.wsKey /\ r.wsVersion
    \/ \E i \in 1..Len(r.connection) : toLowerCase(r.connection[i]) = "upgrade"

\* C17: a request that carries a duplex-upgrade signal is handed to the
\* native duplex handler before its body is read or parsed: the actor's
\* fetch() is never waiting for the body of such a request.
C17_UpgradeBeforeBodyRead ==
    \A m \in Msgs : HasUpgradeSignal(req[m]) => pc[m] /= "reading"

\* C18: a request is classified as a duplex upgrade exactly when one of the
\* signals is present, whichever of the others were dropped.
C18_AnySignalDetects ==
    \A m \in Msgs :
        pc[m] \notin {"idle", "reading"} =>
            (branch[m] = "websocket" <=> HasUpgradeSignal(req[m]))

(***************************************************************************)
(* Approval cookie: claims                                                 *)
(***************************************************************************)
\* the elements of a list
Range(list) == {list[i] : i \in 1..Len(list)}

\* The last request was a POST /authorize whose form state carries a client id.
PostApproving ==
    /\ bReq.handler = "POST /authorize"
    /\ decodeState(bReq.state).ok
    /\ FormClientId(decodeState(bReq.state).v) /= ""

\* the approval list read from the cookie the last request presented: the
\* list of a cookie that verifies, otherwise empty
PresentedList == IF CookieVerifies(bReq.cookie) THEN bReq.cookie.parts[2].p.v ELSE <<>>

\* The Set-Cookie of the last response is signed under the service secret and
\* lists what the presented cookie listed plus the approved client, each once.
ApprovalSetExtended ==
    LET clientId == FormClientId(decodeState(bReq.state).v)
        issued == bResp.setCookie
        after == issued.parts[2].p.v
    IN  /\ CookieVerifies(issued)
        /\ issued = ApprovalCookie(signData(ServiceSecret, JsonStringify(after)),
                                   JsonStringify(after))
        /\ Range(after) = Range(PresentedList) \cup {clientId}
        /\ Cardinality(Range(after)) = Len(after)
        /\ Includes(PresentedList, clientId) => after = PresentedList

\* C19: a POST /authorize approving client C answers with a freshly signed
\* cookie whose approval set is the set of the presented valid cookie (empty
\* when there is none) plus C, without duplicates; nothing approved before is
\* lost, and approving C again gives the same set.
C19_ApprovalSetUnion ==
    PostApproving => (bResp.kind = "redirect-upstream" /\ ApprovalSetExtended)

BrokerStep(handler) == brokerVars' /= brokerVars /\ bReq'.handler = handler

GrantOf(request) ==
    LET stateData == decodeState(request.state)
        tag == IF stateData.v.clientType = "" THEN "mcp-remote" ELSE stateData.v.clientType
    IN  MkGrant(stateData.v.request,
                CallbackProps(request.code, CallbackUrlAt(request.origin), tag))

\* C22: an AuthorizationRequest is consumed once by the callback step: a
\* GET /callback presenting a state and an upstream code for which an earlier
\* GET /callback has completed authorization does not complete it again.
C22_ConsumedOnce ==
    [][(/\ BrokerStep("GET /callback")
        /\ decodeState(bReq'.state).ok
        /\ GrantOf(bReq') \in pendingProps)
       => bResp'.kind /= "redirect-client"]_vars

\* C23: the classification tag is metadata only.  Each step's outcome is
\* fixed by inputs that do not include the tag: whether GET /authorize asks
\* for consent, by the client id and the cookie; the redirect target, by the
\* address the request came to; what GET /callback answers and the request,
\* code and redirect URI it hands on, by the redirect it follows and the code
\* presented, whichever tag (or none) the state carries.
C23_TagIsMetadataOnly ==
    [][/\ (BrokerStep("GET /authorize") /\ bResp'.kind \in {"dialog", "redirect-upstream"}) =>
            /\ (bResp'.kind = "redirect-upstream") =
                   (clientIdAlreadyApproved(bReq'.cookie, bReq'.request.clientId, ServiceSecret)
                        = "yes")
            /\ bResp'.kind = "redirect-upstream" =>
                   bResp'.redirectUri = Url(bReq'.origin, "/callback")
       /\ BrokerStep("POST /authorize") =>
            /\ bResp'.kind = "redirect-upstream"
            /\ bResp'.status = 302
            /\ bResp'.redirectUri = Url(bReq'.origin, "/callback")
       /\ BrokerStep("GET /callback") =>
            /\ bResp'.kind = IF bReq'.code /= "" THEN "redirect-client" ELSE BadRequest.kind
            /\ bResp'.status = IF bReq'.code /= "" THEN 302 ELSE 400
            /\ bReq'.code = "" => pendingProps' = pendingProps
            /\ bReq'.code /= "" =>
                   /\ bResp'.request = bResp.request
                   /\ \E g \in pendingProps' :
                          /\ pendingProps' = pendingProps \cup {g}
                          /\ g.request = bResp.request
                          /\ g.props.microsoftAuthCode = bReq'.code
                          /\ g.props.microsoftRedirectUri = bResp.redirectUri]_vars

\* C23 witness: a callback whose state carried a tag other than the one the
\* redirect URI gives was accepted, and the grant bears that tag.
C23_Witness ==
    /\ bReq.handler = "GET /callback"
    /\ bResp.kind = "redirect-client"
    /\ decodeState(bReq.state).v.clientType = "web-connector"
    /\ clientType(bResp.request.redirectUri) = "mcp-remote"
    /\ \E g \in pendingProps : g.request = bResp.request /\ g.props.clientType = "web-connector"

\* C24: GET /authorize for a client id whose registration cannot be resolved
\* ends in a refusal: neither the consent dialog nor the upstream redirect is
\* the answer.
C24_UnresolvableClientRefused ==
    (/\ bReq.handler = "GET /authorize"
     /\ bReq.request.clientId /= ""
     /\ lookupClient(bReq.request.clientId, kvStaticClient) = "null")
    => bResp.kind \notin {"dialog", "redirect-upstream"}

\* The state a request presents is missing, malformed, or names no client.
BadStatePresented(request) ==
    \/ ~decodeState(request.state).ok
    \/ /\ request.handler = "POST /authorize"
       /\ FormClientId(decodeState(request.state).v) = ""
    \/ /\ request.handler = "GET /callback"
       /\ CallbackClientId(decodeState(request.state).v) = ""

\* C25: POST /authorize and GET /callback answer a missing or malformed
\* state, or one without a client id, with a 4xx response that sets no
\* cookie and redirects nowhere.
C25_BadStateIsInvalidRequest ==
    (bReq.handler \in {"POST /authorize", "GET /callback"} /\ BadStatePresented(bReq))
    => /\ bResp.status \in 400..499
       /\ bResp.setCookie = NoCookieHeader
       /\ bResp.kind \notin {"redirect-upstream", "redirect-client"}

\* C26: verification accepts exactly the signature signData produced: a
\* presented cookie whose signature segment is not the text signData gives
\* for the presented payload under the service key does not verify, and a
\* malformed signature gives false, never an error.
C26_OnlyTheSignedPairVerifies ==
    LET parts == bReq.cookie.parts IN
    (/\ bReq.cookie.present /\ bReq.cookie.target
     /\ Len(parts) = 2
     /\ Atob(parts[2]).ok
     /\ parts[1] /= signData(ServiceSecret, Atob(parts[2]).text))
    => ~verifySignature(ServiceSecret, parts[1], Atob(parts[2]).text)

\* C27: in every flow the redirect_uri sent to the upstream token endpoint
\* equals the redirect_uri sent to the upstream authorize endpoint: the
\* redirect, whether GET /authorize or POST /authorize issued it, names this
\* service's /callback at the address the request came to; the callback that
\* follows it records that same URL in the grant; and the code exchange sends
\* the URL of its grant.
C27_SameRedirectUri ==
    /\ [](bResp.kind = "redirect-upstream" =>
            /\ bReq.handler \in {"GET /authorize", "POST /authorize"}
            /\ bResp.redirectUri = Url(bReq.origin, "/callback"))
    /\ [][BrokerStep("GET /callback") =>
            \A g \in pendingProps' \ pendingProps :
                g.props.microsoftRedirectUri = bResp.redirectUri]_vars
    /\ [](\A op \in Ops :
            (ops[op].pc = "calling" /\ ops[op].grantType = "authorization_code") =>
                /\ ops[op].grant \in pendingProps
                /\ ops[op].sent.redirect_uri = ops[op].grant.props.microsoftRedirectUri)

\* C27 witness: a flow that ran under the service's second address, with the
\* redirect issued by POST /authorize, has reached the code exchange, which is
\* sending that address's callback URL.
C27_Witness ==
    /\ approved /= {}
    /\ bReq.handler = "GET /callback"
    /\ bReq.origin = "https://alias.example"
    /\ \E op \in Ops :
           /\ ops[op].pc = "calling"
           /\ ops[op].sent.redirect_uri = Url("https://alias.example", "/callback")

\* C28: every client id in a cookie signed by the service was the subject of
\* an earlier POST /authorize approval.  Every list the service has signed
\* holds approved ids only; a cookie is set only by POST /authorize, it
\* verifies and lists approved ids only, so ids of a presented cookie that
\* fails verification are not copied; GET /authorize and GET /callback set no
\* cookie and sign nothing.
C28_SignedIdsWereApproved ==
    /\ [](\A l \in signedPayloads : Range(l) \subseteq approved)
    /\ [](bResp.setCookie /= NoCookieHeader =>
            /\ bReq.handler = "POST /authorize"
            /\ CookieVerifies(bResp.setCookie)
            /\ bResp.setCookie.parts[2].p.v \in signedPayloads
            /\ Range(bResp.setCookie.parts[2].p.v) \subseteq approved
            /\ ~CookieVerifies(bReq.cookie) =>
                   bResp.setCookie.parts[2].p.v = <<FormClientId(decodeState(bReq.state).v)>>)
    /\ [][(BrokerStep("GET /authorize") \/ BrokerStep("GET /callback")) =>
            /\ bResp'.setCookie = NoCookieHeader
            /\ signedPayloads' = signedPayloads
            /\ approved' = approved]_vars

\* C28 witness: an approval of c2 that presented a cookie listing c1 under a
\* foreign key's signature was answered with a cookie that lists c2 alone,
\* c1 never having been approved.
C28_Witness ==
    /\ bReq.handler = "POST /authorize"
    /\ bReq.cookie \in ForgedCookies
    /\ bReq.cookie.parts[2].p = JsonStringify(<<"c1">>)
    /\ bResp.setCookie /= NoCookieHeader
    /\ bResp.setCookie.parts[2].p.v = <<"c2">>
    /\ "c1" \notin approved

\* C29: a refresh that returns leaves the session's stored refresh token
\* non-empty: the one the upstream just returned if it returned a non-empty
\* one, otherwise the one stored before; and a refresh the upstream refused
\* leaves the stored props as they were.
C29_RefreshTokenKept ==
    [][\A op \in Ops :
         (/\ Returned(op)
          /\ ops[op].grantType = "refresh_token"
          /\ Truthy(sessionProps[ops[op].grant].microsoftRefreshToken)) =>
             LET g == ops[op].grant
                 returned == outcome'.response
             IN  /\ Truthy(sessionProps'[g].microsoftRefreshToken)
                 /\ sessionProps'[g].microsoftRefreshToken =
                        IF returned.ok /\ Truthy(returned.refresh_token)
                        THEN returned.refresh_token
                        ELSE sessionProps[g].microsoftRefreshToken
                 /\ ~returned.ok => sessionProps'[g] = sessionProps[g]]_vars

\* C30: the router's auth classification is total: for every request and
\* every Authorization header, isApiTokenRequest ends in a discovery or an
\* authenticated decision and the request never fails in it.
C30_ClassificationTotal ==
    /\ rPc /= "failed"
    /\ rPc /= "idle" => rClass \in {"discovery", "oauth"}

====
